---- MODULE Spec2Model ----
(***************************************************************************)
(* A model of the arXiv batch pipeline: the cleaning stage                 *)
(* (src/processing/clean_arxiv_jsonl.py) and the ingestion stage           *)
(* (src/processing/ingest_to_elasticsearch.py).                            *)
(*                                                                         *)
(* Python values are tagged records; the tag t says which payload counts:  *)
(*   null  t = "null"                                                      *)
(*   int   t = "int",  n the number                                        *)
(*   str   t = "str",  s the sequence of its characters                    *)
(*   list  t = "list", xs the sequence of its items                        *)
(*   dict  t = "obj",  f the function from its keys to their values        *)
(* A raised exception of class c is the value Raise(c).                    *)
(***************************************************************************)
EXTENDS Integers, Sequences, FiniteSets, TLC

VARIABLES
    input,            \* the lines of the input file
    start_line,       \* --start-line
    pc,               \* position of the running main()
    i,                \* index of the next line of enumerate(f)
    fout,             \* content of the output file of the cleaning stage
    total_processed,  \* clean_jsonl's counter
    run,              \* which run of the cleaning stage is in progress
    first_out,        \* content of the output file when the first run ended
    log,              \* logger.warning / logger.info records of the run
    batch_size,       \* --batch-size
    index_exists,     \* whether the destination holds the index
    clock,            \* datetime.now()
    batch,            \* main's batch list
    bulk_calls,       \* the helpers.bulk calls made so far, with their outcome
    yielded,          \* the records load_jsonl_lines has yielded
    raw,              \* argument of a clean_record call
    cleaned           \* result of that call

vars == <<input, start_line, pc, i, fout, total_processed, run, first_out, log,
          batch_size, index_exists, clock, batch, bulk_calls, yielded, raw, cleaned>>

----------------------------------------------------------------------------
(* Bounds *)

MaxLines == 3
MaxBatch == 2

----------------------------------------------------------------------------
(* Python values *)

EmptyDict == [k \in {} |-> 0]

\* every value carries all four payloads, so that any two values compare
Val(tag, int, chars, items, map) ==
    [t |-> tag, n |-> int, s |-> chars, xs |-> items, f |-> map]

PyNull == Val("null", 0, <<>>, <<>>, EmptyDict)
PyInt(n) == Val("int", n, <<>>, <<>>, EmptyDict)
PyStr(s) == Val("str", 0, s, <<>>, EmptyDict)
PyList(xs) == Val("list", 0, <<>>, xs, EmptyDict)
PyDict(f) == Val("obj", 0, <<>>, <<>>, f)
Raise(class) == Val("raise", 0, <<class>>, <<>>, EmptyDict)
Raised(x) == x.t = "raise"

Whitespace == {" ", "\t", "\n"}

\* dict.get(key, default)
get(record, key, default) ==
    IF key \in DOMAIN record THEN record[key] ELSE default

\* bool(value)
Truthy(x) ==
    CASE x.t = "null" -> FALSE
      [] x.t = "int" -> x.n /= 0
      [] x.t = "str" -> x.s /= <<>>
      [] x.t = "list" -> x.xs /= <<>>
      [] x.t = "obj" -> DOMAIN x.f /= {}

\* iter(value); iteration over a dict does not occur on any modelled input
Iterable(x) == x.t \in {"list", "str"}

Iter(x) ==
    IF x.t = "list" THEN x.xs
    ELSE [j \in 1..Len(x.s) |-> PyStr(<<x.s[j]>>)]

RECURSIVE lstrip(_)
lstrip(s) ==
    IF s /= <<>> /\ Head(s) \in Whitespace THEN lstrip(Tail(s)) ELSE s

RECURSIVE rstrip(_)
rstrip(s) ==
    IF s /= <<>> /\ s[Len(s)] \in Whitespace
    THEN rstrip(SubSeq(s, 1, Len(s) - 1)) ELSE s

\* str.strip()
strip(s) == rstrip(lstrip(s))

RECURSIVE FirstToken(_)
FirstToken(s) ==
    IF s = <<>> \/ Head(s) \in Whitespace THEN <<>>
    ELSE <<Head(s)>> \o FirstToken(Tail(s))

\* str.split(): the maximal runs of non-whitespace characters
RECURSIVE split(_)
split(s) ==
    LET t == lstrip(s)
        tok == FirstToken(t)
    IN IF t = <<>> THEN <<>>
       ELSE <<PyStr(tok)>> \o split(SubSeq(t, Len(tok) + 1, Len(t)))

\* sep.join(parts), parts a sequence of str values
RECURSIVE join(_, _)
join(sep, parts) ==
    IF parts = <<>> THEN <<>>
    ELSE IF Len(parts) = 1 THEN parts[1].s
    ELSE parts[1].s \o sep \o join(sep, Tail(parts))

\* [p for p in author if p]
RECURSIVE TruthyParts(_)
TruthyParts(ps) ==
    IF ps = <<>> THEN <<>>
    ELSE IF Truthy(Head(ps)) THEN <<Head(ps)>> \o TruthyParts(Tail(ps))
    ELSE TruthyParts(Tail(ps))

\* ' '.join([p for p in author if p]) raises when author is not iterable or
\* a kept part is not a str
AuthorRaises(author) ==
    \/ ~Iterable(author)
    \/ \E j \in 1..Len(Iter(author)) :
          Truthy(Iter(author)[j]) /\ Iter(author)[j].t /= "str"

AuthorName(author) == PyStr(join(<<" ">>, TruthyParts(Iter(author))))

----------------------------------------------------------------------------
(* clean_arxiv_jsonl.py: clean_record *)

\* record.get(key, '').strip() and .split() exist on str only
StrFieldRaises(record, key) == get(record, key, PyStr(<<>>)).t /= "str"

\* the comprehension over record.get('authors_parsed', [])
AuthorsRaise(record) ==
    LET ap == get(record, "authors_parsed", PyList(<<>>))
    IN \/ ~Iterable(ap)
       \/ \E j \in 1..Len(Iter(ap)) : AuthorRaises(Iter(ap)[j])

Authors(record) ==
    LET ap == Iter(get(record, "authors_parsed", PyList(<<>>)))
    IN PyList([j \in 1..Len(ap) |-> AuthorName(ap[j])])

clean_record(rawv) ==
    IF rawv.t /= "obj" THEN Raise("AttributeError")
    ELSE LET record == rawv.f IN
      IF \/ StrFieldRaises(record, "title")
         \/ StrFieldRaises(record, "abstract")
         \/ StrFieldRaises(record, "categories")
      THEN Raise("AttributeError")
      ELSE IF AuthorsRaise(record) THEN Raise("TypeError")
      ELSE PyDict([
        id |-> get(record, "id", PyNull),
        title |-> PyStr(strip(get(record, "title", PyStr(<<>>)).s)),
        abstract |-> PyStr(strip(get(record, "abstract", PyStr(<<>>)).s)),
        categories |-> PyList(split(get(record, "categories", PyStr(<<>>)).s)),
        authors |-> Authors(record),
        versions |-> get(record, "versions", PyList(<<>>)),
        update_date |-> get(record, "update_date", PyNull),
        submitter |-> get(record, "submitter", PyNull),
        journal_ref |-> get(record, "journal-ref", PyNull),
        doi |-> get(record, "doi", PyNull)])

----------------------------------------------------------------------------
(* ingest_to_elasticsearch.py: normalize_dates *)

RfcDate == <<"M", "o", "n", ",", " ", "2", " ", "J", "a", "n", " ", "2", "0", "2", "3", " ", "1", "0", ":", "0", "0", ":", "0", "0", " ", "G", "M", "T">>
IsoDate == <<"2", "0", "2", "3", "-", "0", "1", "-", "0", "2", "T", "1", "0", ":", "0", "0", ":", "0", "0", "+", "0", "0", ":", "0", "0">>
RfcDate2 == <<"3", " ", "F", "e", "b", " ", "2", "0", "2", "4", " ", "0", "9", ":", "3", "0", " ", "G", "M", "T">>
IsoDate2 == <<"2", "0", "2", "4", "-", "0", "2", "-", "0", "3", "T", "0", "9", ":", "3", "0", ":", "0", "0", "+", "0", "0", ":", "0", "0">>
NotADate == <<"n", "o", "p", "e">>

\* parsedate_to_datetime(s).isoformat(), on the date strings of the model:
\* the two RFC-2822 dates parse, every other string raises ValueError
parsedate_to_datetime(s) ==
    IF s = RfcDate THEN PyStr(IsoDate)
    ELSE IF s = RfcDate2 THEN PyStr(IsoDate2)
    ELSE Raise("ValueError")

\* NormalizeEntry without the try/except around the parse
NormalizeEntryUnhandled(v) ==
    IF v.t /= "obj"
    THEN [raised |-> TRUE, entry |-> v, warned |-> <<>>]
    ELSE LET created == get(v.f, "created", PyNull) IN
      IF created.t /= "str"
      THEN [raised |-> FALSE, entry |-> v, warned |-> <<>>]
      ELSE IF Raised(parsedate_to_datetime(created.s))
      THEN [raised |-> TRUE, entry |-> v, warned |-> <<>>]
      ELSE [raised |-> FALSE,
            entry |-> PyDict([v.f EXCEPT !["created"] =
                                  parsedate_to_datetime(created.s)]),
            warned |-> <<>>]

\* One pass of the loop body over version entry v: the entry afterwards, the
\* values the warning reports, and whether an exception leaves the loop (v.get
\* fails in the try block and again in the handler's f-string).
NormalizeEntry(v) ==
    IF v.t /= "obj"
    THEN [raised |-> TRUE, entry |-> v, warned |-> <<>>]
    ELSE LET created == get(v.f, "created", PyNull) IN
      IF created.t /= "str"
      THEN [raised |-> FALSE, entry |-> v, warned |-> <<>>]
      ELSE IF Raised(parsedate_to_datetime(created.s))
      THEN [raised |-> FALSE, entry |-> v, warned |-> <<created>>]
      ELSE [raised |-> FALSE,
            entry |-> PyDict([v.f EXCEPT !["created"] =
                                  parsedate_to_datetime(created.s)]),
            warned |-> <<>>]

\* for v in record['versions'], from entry j on
RECURSIVE NormalizeFrom(_, _)
NormalizeFrom(vs, j) ==
    IF j > Len(vs) THEN [raised |-> FALSE, entries |-> <<>>, warned |-> <<>>]
    ELSE LET r == NormalizeEntry(vs[j]) IN
      IF r.raised THEN [raised |-> TRUE, entries |-> <<>>, warned |-> <<>>]
      ELSE LET rest == NormalizeFrom(vs, j + 1) IN
        [raised |-> rest.raised,
         entries |-> <<r.entry>> \o rest.entries,
         warned |-> r.warned \o rest.warned]

\* normalize_dates(record): [rec |-> the record or the exception raised,
\*                           warned |-> the values logged as unparseable]
normalize_dates(record) ==
    IF "versions" \notin DOMAIN record.f
    THEN [rec |-> record, warned |-> <<>>]
    ELSE LET versions == record.f["versions"] IN
      IF ~Iterable(versions)
      THEN [rec |-> Raise("TypeError"), warned |-> <<>>]
      ELSE LET r == NormalizeFrom(Iter(versions), 1) IN
        IF r.raised
        THEN [rec |-> Raise("AttributeError"), warned |-> r.warned]
        ELSE [rec |-> PyDict([record.f EXCEPT !["versions"] =
                                  PyList(r.entries)]),
              warned |-> r.warned]

----------------------------------------------------------------------------
(* Inputs *)

Absent == Val("absent", 0, <<>>, <<>>, EmptyDict)

\* a dict with key k, or without it when x is Absent
Opt(k, x) == IF x = Absent THEN EmptyDict ELSE (k :> x)

Version(label, created) ==
    PyDict(Opt("version", label) @@ Opt("created", created))

AuthorOptions ==
    { Absent,
      PyNull,
      PyList(<<PyList(<<PyStr(<<"D", "o", "e">>), PyStr(<<"J">>), PyStr(<<>>)>>)>>),
      PyList(<<PyList(<<PyStr(<<"J">>), PyNull, PyStr(<<"D", "o", "e">>)>>),
               PyList(<<>>)>>),
      PyList(<<PyNull>>),
      PyList(<<PyList(<<PyStr(<<"J">>), PyInt(5)>>)>>) }

\* the raw records clean_record is applied to: every combination of absent,
\* null and present source fields
RawRecords ==
    { PyDict(Opt("id", id) @@ Opt("title", title) @@ Opt("abstract", abstract)
             @@ Opt("categories", categories) @@ Opt("authors_parsed", authors)
             @@ Opt("versions", versions) @@ Opt("journal-ref", other)
             @@ Opt("update_date", other) @@ Opt("submitter", other)
             @@ Opt("doi", other)) :
        id \in {Absent, PyNull, PyStr(<<"a", "1">>)},
        title \in {Absent, PyNull, PyStr(<<>>), PyStr(<<" ", "T", " ", "t", "\n">>)},
        abstract \in {Absent, PyStr(<<"A", "\n">>)},
        categories \in {Absent, PyNull,
                        PyStr(<<"c", "s", " ", " ", "l", "g">>)},
        authors \in AuthorOptions,
        versions \in {Absent,
                      PyList(<<Version(PyStr(<<"v", "1">>), PyStr(RfcDate))>>)},
        other \in {Absent, PyNull, PyStr(<<"x">>)} }

\* a decoded line that is not a mapping
RawValues == RawRecords \cup {PyList(<<>>), PyInt(5)}

\* A line of a JSONL file: text that json.loads rejects, or the text of val
TextLine == [parses |-> FALSE, val |-> PyNull]
JsonLine(x) == [parses |-> TRUE, val |-> x]

json_loads(line) ==
    IF line.parses THEN line.val ELSE Raise("JSONDecodeError")

LBad == TextLine
LList == JsonLine(PyList(<<>>))
LFull ==
    JsonLine(PyDict(
        [id |-> PyStr(<<"a", "1">>),
         title |-> PyStr(<<" ", "T", "\n">>),
         categories |-> PyStr(<<"c", "s", " ", "l", "g">>),
         authors_parsed |->
            PyList(<<PyList(<<PyStr(<<"D", "o", "e">>), PyStr(<<"J">>), PyStr(<<>>)>>)>>),
         versions |-> PyList(<<Version(PyStr(<<"v", "1">>), PyStr(RfcDate))>>),
         doi |-> PyNull]))
LDates ==
    JsonLine(PyDict(
        [id |-> PyStr(<<"a", "2">>),
         versions |-> PyList(<<Version(PyStr(<<"v", "1">>), PyStr(NotADate)),
                               Version(PyStr(<<"v", "2">>), Absent),
                               Version(Absent, PyInt(5)),
                               Version(PyStr(<<"v", "4">>), PyStr(RfcDate2))>>)]))
LBadEntry ==
    JsonLine(PyDict([id |-> PyStr(<<"a", "3">>), versions |-> PyList(<<PyInt(5)>>)]))
LNullTitle ==
    JsonLine(PyDict([id |-> PyStr(<<"a", "4">>), title |-> PyNull]))

Lines == {LBad, LList, LFull, LDates, LBadEntry, LNullTitle}

Inputs == UNION {[1..n -> Lines] : n \in 0..MaxLines}
StartLines == 0..MaxLines
BatchSizes == -1..MaxBatch

\* a record left in the output file by an earlier, unrelated run
Stale == PyDict([id |-> PyStr(<<"o", "l", "d">>)])

----------------------------------------------------------------------------
(* clean_record as a function: one call on each raw value *)

InitRecord ==
    /\ raw \in RawValues
    /\ cleaned = PyNull
    /\ pc = "call"
    /\ input = <<>> /\ start_line = 0 /\ i = 0 /\ fout = <<>>
    /\ total_processed = 0 /\ run = 1 /\ first_out = <<>> /\ log = <<>>
    /\ batch_size = 1 /\ index_exists = FALSE /\ clock = 0
    /\ batch = <<>> /\ bulk_calls = <<>> /\ yielded = <<>>

CallCleanRecord ==
    /\ pc = "call"
    /\ cleaned' = clean_record(raw)
    /\ pc' = "returned"
    /\ UNCHANGED <<input, start_line, i, fout, total_processed, run, first_out,
                   log, batch_size, index_exists, clock, batch, bulk_calls,
                   yielded, raw>>

NextRecord == CallCleanRecord

SpecRecord == InitRecord /\ [][NextRecord]_vars

----------------------------------------------------------------------------
(* clean_arxiv_jsonl.py: clean_jsonl, run twice on the same files *)

ProgressEvery == 1000

LogEntry(event, n, x) == [event |-> event, n |-> n, value |-> x]

\* if i < start_line: continue
Skipped(idx, start) == idx < start

\* OpenForWrite with mode 'a': the earlier content is kept
OpenForAppend(existing) == existing

\* output_path.open('w'): the file is truncated
OpenForWrite(existing) == <<>>

\* json.dump(cleaned, fout); fout.write('\n'): one line, the text of cleaned
json_dump(x) == JsonLine(x)

\* the try block of clean_jsonl up to clean_record: the cleaned record, or the
\* exception that ends the block
CleanTry(line) ==
    IF Raised(json_loads(line)) THEN json_loads(line)
    ELSE clean_record(json_loads(line))

\* ProcessedAfter with the increment ahead of the try block
ProcessedAlways(total, r) == total + 1

\* total_processed += 1, reached only when nothing was raised
ProcessedAfter(total, r) == IF Raised(r) THEN total ELSE total + 1

InitClean ==
    /\ input \in Inputs
    /\ start_line \in StartLines
    /\ fout \in {<<>>, <<json_dump(Stale)>>}
    /\ pc = "start"
    /\ i = 0 /\ total_processed = 0 /\ run = 1 /\ first_out = <<>> /\ log = <<>>
    /\ batch_size = 1 /\ index_exists = FALSE /\ clock = 0
    /\ batch = <<>> /\ bulk_calls = <<>> /\ yielded = <<>>
    /\ raw = PyNull /\ cleaned = PyNull

ingestVars == <<batch_size, index_exists, clock, batch, bulk_calls, yielded>>
recordVars == <<raw, cleaned>>

\* the first lines of clean_jsonl: the counter, and both files opened
CleanOpen ==
    /\ pc = "start"
    /\ total_processed' = 0
    /\ fout' = OpenForWrite(fout)
    /\ i' = 0
    /\ log' = <<LogEntry("cleaning", start_line, PyNull)>>
    /\ pc' = "loop"
    /\ UNCHANGED <<input, start_line, run, first_out, ingestVars, recordVars>>

\* one iteration of for i, line in enumerate(fin)
CleanLine ==
    /\ pc = "loop"
    /\ i < Len(input)
    /\ LET r == CleanTry(input[i + 1]) IN
         IF Skipped(i, start_line)
         THEN UNCHANGED <<fout, total_processed, log>>
         ELSE /\ fout' = IF Raised(r) THEN fout ELSE Append(fout, json_dump(r))
              /\ total_processed' = ProcessedAfter(total_processed, r)
              /\ log' =
                   IF Raised(r)
                   THEN Append(log, LogEntry(
                            IF r = Raise("JSONDecodeError")
                            THEN "invalid json" ELSE "line error", i, PyNull))
                   ELSE IF total_processed' % ProgressEvery = 0
                   THEN Append(log, LogEntry("progress", total_processed', PyNull))
                   ELSE log
    /\ i' = i + 1
    /\ UNCHANGED <<input, start_line, pc, run, first_out, ingestVars, recordVars>>

\* the loop ends, both files are closed
CleanClose ==
    /\ pc = "loop"
    /\ i = Len(input)
    /\ log' = Append(log, LogEntry("complete", total_processed, PyNull))
    /\ pc' = "done"
    /\ UNCHANGED <<input, start_line, i, fout, total_processed, run, first_out,
                   ingestVars, recordVars>>

\* the stage is started again with the same arguments
CleanRerun ==
    /\ pc = "done"
    /\ run = 1
    /\ run' = 2
    /\ first_out' = fout
    /\ pc' = "start"
    /\ UNCHANGED <<input, start_line, i, fout, total_processed, log,
                   ingestVars, recordVars>>

NextClean == CleanOpen \/ CleanLine \/ CleanClose \/ CleanRerun

SpecClean == InitClean /\ [][NextClean]_vars

----------------------------------------------------------------------------
(* ingest_to_elasticsearch.py: main *)

\* datetime.now().isoformat()
Now(t) == PyStr(<<ToString(t)>>)

\* record['__ingest_timestamp'] = ...: item assignment by key exists on a
\* dict only
SetTimestamp(record, t) ==
    IF record.t /= "obj" THEN Raise("TypeError")
    ELSE PyDict(("__ingest_timestamp" :> Now(t)) @@ record.f)

\* the try block of load_jsonl_lines on one line:
\*   [rec |-> the record to yield or the exception raised, warned |-> ...]
LoadTry(line, t) ==
    IF Raised(json_loads(line))
    THEN [rec |-> json_loads(line), warned |-> <<>>]
    ELSE IF Raised(SetTimestamp(json_loads(line), t))
    THEN [rec |-> SetTimestamp(json_loads(line), t), warned |-> <<>>]
    ELSE normalize_dates(SetTimestamp(json_loads(line), t))

\* except json.JSONDecodeError: the only exception load_jsonl_lines handles
Handled(exc) == exc = Raise("JSONDecodeError")

\* bulk_ingest: the actions handed to helpers.bulk
bulk_actions(records) ==
    [j \in 1..Len(records) |->
        [id |-> get(records[j].f, "id", PyNull), source |-> records[j]]]

\* BatchFull with > for >=
BatchFullStrict(b, size) == Len(b) > size

\* if len(batch) >= args.batch_size
BatchFull(b, size) == Len(b) >= size

\* AfterBulkFailure with the exception caught and the loop resumed
BulkFailureSwallowed == "loop"

\* what a failed helpers.bulk leads to: the exception leaves bulk_ingest and
\* main, which has no handler
AfterBulkFailure == "error_bulk"

\* AfterEnsureFailure with the exception caught and the run continued
EnsureFailureSwallowed == "loop"

\* what a failed es.indices call leads to
AfterEnsureFailure == "error_ensure"

\* batch.clear() after a stored batch
Cleared(b) == <<>>

WarnEntries(values, n) ==
    [j \in 1..Len(values) |-> LogEntry("bad created date", n, values[j])]

InitIngest ==
    /\ input \in Inputs
    /\ start_line \in StartLines
    /\ batch_size \in BatchSizes
    /\ index_exists \in BOOLEAN
    /\ pc = "start"
    /\ i = 0 /\ clock = 0 /\ log = <<>>
    /\ batch = <<>> /\ bulk_calls = <<>> /\ yielded = <<>>
    /\ fout = <<>> /\ total_processed = 0 /\ run = 1 /\ first_out = <<>>
    /\ raw = PyNull /\ cleaned = PyNull

cleanVars == <<fout, total_processed, run, first_out>>

\* create_index_if_not_exists(es, args.index); the destination may be
\* unreachable, and then the exception ends main
EnsureIndex ==
    /\ pc = "start"
    /\ \E reachable \in BOOLEAN :
         IF reachable
         THEN /\ index_exists' = TRUE
              /\ log' = Append(log, LogEntry(
                     IF index_exists THEN "index exists" ELSE "creating index",
                     0, PyNull))
              /\ pc' = "loop"
         ELSE /\ pc' = AfterEnsureFailure
              /\ UNCHANGED <<index_exists, log>>
    /\ UNCHANGED <<input, start_line, i, batch_size, clock, batch, bulk_calls,
                   yielded, cleanVars, recordVars>>

\* main asks load_jsonl_lines for the next record: one iteration of the
\* generator's loop, and, when it yields, the body of main's loop up to the test
\* of the batch size
ReadLine ==
    /\ pc = "loop"
    /\ i < Len(input)
    /\ LET r == LoadTry(input[i + 1], clock) IN
         IF Skipped(i, start_line)
         THEN /\ i' = i + 1
              /\ UNCHANGED <<pc, clock, log, batch, yielded>>
         ELSE IF Raised(r.rec) /\ Handled(r.rec)
         THEN /\ i' = i + 1
              /\ log' = Append(log, LogEntry("invalid json", i, PyNull))
              /\ UNCHANGED <<pc, clock, batch, yielded>>
         ELSE IF Raised(r.rec)
         THEN /\ pc' = "error_line"
              /\ log' = log \o WarnEntries(r.warned, i)
              /\ clock' = IF json_loads(input[i + 1]).t = "obj"
                          THEN clock + 1 ELSE clock
              /\ UNCHANGED <<i, batch, yielded>>
         ELSE /\ i' = i + 1
              /\ clock' = clock + 1
              /\ yielded' = Append(yielded, r.rec)
              /\ batch' = Append(batch, r.rec)
              /\ log' = log \o WarnEntries(r.warned, i)
              /\ pc' = IF BatchFull(batch', batch_size) THEN "write" ELSE "loop"
    /\ UNCHANGED <<input, start_line, batch_size, index_exists, bulk_calls,
                   cleanVars, recordVars>>

\* a call of bulk_ingest, as the destination sees it
BulkCall(stored, records) == [stored |-> stored, actions |-> bulk_actions(records)]

\* logger.info(...); bulk_ingest(es, args.index, batch); batch.clear()
\* helpers.bulk raises when the destination rejects the request
BulkWrite ==
    /\ pc = "write"
    /\ log' = Append(log, LogEntry("ingesting", Len(batch), PyNull))
    /\ \E stored \in BOOLEAN :
         /\ bulk_calls' = Append(bulk_calls, BulkCall(stored, batch))
         /\ IF stored
            THEN batch' = Cleared(batch) /\ pc' = "loop"
            ELSE batch' = batch /\ pc' = AfterBulkFailure
    /\ UNCHANGED <<input, start_line, i, batch_size, index_exists, clock,
                   yielded, cleanVars, recordVars>>

\* the generator is exhausted: if batch: bulk_ingest(...); 'Ingestion complete.'
FinalFlush ==
    /\ pc = "loop"
    /\ i = Len(input)
    /\ IF batch = <<>>
       THEN /\ pc' = "done"
            /\ log' = Append(log, LogEntry("complete", 0, PyNull))
            /\ UNCHANGED bulk_calls
       ELSE \E stored \in BOOLEAN :
            /\ bulk_calls' = Append(bulk_calls, BulkCall(stored, batch))
            /\ IF stored
               THEN /\ log' = log \o <<LogEntry("ingesting final", Len(batch), PyNull),
                                       LogEntry("complete", 0, PyNull)>>
                    /\ pc' = "done"
               ELSE /\ log' = Append(log, LogEntry("ingesting final", Len(batch), PyNull))
                    /\ pc' = AfterBulkFailure
    /\ UNCHANGED <<input, start_line, i, batch_size, index_exists, clock, batch,
                   yielded, cleanVars, recordVars>>

NextIngest == EnsureIndex \/ ReadLine \/ BulkWrite \/ FinalFlush

SpecIngest == InitIngest /\ [][NextIngest]_vars

----------------------------------------------------------------------------
(* Vocabulary of the properties *)

Range(q) == {q[j] : j \in 1..Len(q)}

RECURSIVE Flatten(_)
Flatten(qs) == IF qs = <<>> THEN <<>> ELSE Head(qs) \o Flatten(Tail(qs))

Sources(actions) == [j \in 1..Len(actions) |-> actions[j].source]

\* the records of the bulk calls the destination stored, in call order
StoredCalls == SelectSeq(bulk_calls, LAMBDA c : c.stored)
StoredSources ==
    Sources(Flatten([j \in 1..Len(StoredCalls) |-> StoredCalls[j].actions]))

Ceil(n, b) == (n + b - 1) \div b

WithoutTimestamp(rec) ==
    PyDict([k \in DOMAIN rec.f \ {"__ingest_timestamp"} |-> rec.f[k]])

\* a line the cleaning stage can process
ValidForClean(line) == line.parses /\ ~Raised(clean_record(line.val))

\* the output lines for the valid lines with index in from..to-1
RECURSIVE ExpectedClean(_, _, _)
ExpectedClean(inp, from, to) ==
    IF to <= from \/ to <= 0 THEN <<>>
    ELSE ExpectedClean(inp, from, to - 1) \o
         (IF to <= Len(inp) /\ ValidForClean(inp[to])
          THEN <<JsonLine(clean_record(inp[to].val))>> ELSE <<>>)

\* a line holding a mapping whose 'versions', if any, is a list of mappings
WellFormed(line) ==
    /\ line.parses
    /\ line.val.t = "obj"
    /\ "versions" \in DOMAIN line.val.f =>
          /\ line.val.f["versions"].t = "list"
          /\ \A e \in Range(line.val.f["versions"].xs) : e.t = "obj"

\* the records the ingestion reader owes for the well-formed lines with index
\* in from..to-1, timestamps left out
RECURSIVE ExpectedLoad(_, _, _)
ExpectedLoad(inp, from, to) ==
    IF to <= from \/ to <= 0 THEN <<>>
    ELSE ExpectedLoad(inp, from, to - 1) \o
         (IF to <= Len(inp) /\ WellFormed(inp[to])
          THEN <<normalize_dates(inp[to].val).rec>> ELSE <<>>)

\* the indexes in from..to-1 of the lines that are JSON
RECURSIVE ParsingIdx(_, _, _)
ParsingIdx(inp, from, to) ==
    IF to <= from \/ to <= 0 THEN <<>>
    ELSE ParsingIdx(inp, from, to - 1) \o
         (IF to <= Len(inp) /\ inp[to].parses THEN <<to - 1>> ELSE <<>>)

Parseable(created) ==
    created.t = "str" /\ ~Raised(parsedate_to_datetime(created.s))

\* version entry after against version entry before, read on line idx
EntryFrame(before, after, idx) ==
    LET created == get(before.f, "created", PyNull) IN
      /\ after.t = "obj"
      /\ DOMAIN after.f = DOMAIN before.f
      /\ \A k \in DOMAIN before.f \ {"created"} : after.f[k] = before.f[k]
      /\ "created" \in DOMAIN before.f =>
            IF Parseable(created)
            THEN after.f["created"] = parsedate_to_datetime(created.s)
            ELSE after.f["created"] = created
      /\ (created.t = "str" /\ ~Parseable(created)) =>
            LogEntry("bad created date", idx, created) \in Range(log)

\* yielded record after against the decoded line before
RecordFrame(before, after, idx) ==
    /\ after.t = "obj"
    /\ DOMAIN after.f = DOMAIN before.f \cup {"__ingest_timestamp"}
    /\ \A k \in DOMAIN before.f \ {"versions"} : after.f[k] = before.f[k]
    /\ "versions" \in DOMAIN before.f =>
          /\ after.f["versions"].t = "list"
          /\ Len(after.f["versions"].xs) = Len(before.f["versions"].xs)
          /\ \A j \in 1..Len(before.f["versions"].xs) :
                EntryFrame(before.f["versions"].xs[j],
                           after.f["versions"].xs[j], idx)

CleanedKeys ==
    {"id", "title", "abstract", "categories", "authors", "versions",
     "update_date", "submitter", "journal_ref", "doi"}

\* the raw records clean_record is meant to be total on: a mapping whose
\* present fields hold a value of the field's type or null
OfFieldType(record, key, tag) ==
    key \in DOMAIN record => record[key].t \in {tag, "null"}

TypedRawRecord(rawv) ==
    /\ rawv.t = "obj"
    /\ OfFieldType(rawv.f, "title", "str")
    /\ OfFieldType(rawv.f, "abstract", "str")
    /\ OfFieldType(rawv.f, "categories", "str")
    /\ OfFieldType(rawv.f, "authors_parsed", "list")
    /\ "authors_parsed" \in DOMAIN rawv.f =>
          \A a \in Range(rawv.f["authors_parsed"].xs) :
             /\ a.t = "list"
             /\ \A part \in Range(a.xs) : part.t \in {"str", "null"}

SourceKey(key) == IF key = "journal_ref" THEN "journal-ref"
                  ELSE IF key = "authors" THEN "authors_parsed" ELSE key

DefaultOf(key) ==
    IF key \in {"title", "abstract"} THEN PyStr(<<>>)
    ELSE IF key \in {"categories", "authors", "versions"} THEN PyList(<<>>)
    ELSE PyNull

----------------------------------------------------------------------------
(* Properties *)

\* C1: in both line readers a line at index >= start_line that raises a
\* per-line error other than a JSON parse error is skipped: no such line ends
\* the stream, the reader goes on to the later lines (stated of a run of the
\* ingestion stage with a positive batch size).
C1_LineErrorsAreSkipped == batch_size >= 1 => pc /= "error_line"

\* C2: when a run with batch size b >= 1 completes, having yielded n records,
\* the bulk writes are exactly ceil(n/b) batches, all of b records but the last,
\* which has n - b*(ceil(n/b)-1), none empty, and their concatenation is the
\* yielded sequence, each record keyed by its id.
C2_BatchesPartitionTheStream ==
    (pc = "done" /\ batch_size >= 1) =>
        LET n == Len(yielded)
            k == Ceil(n, batch_size)
        IN /\ Len(bulk_calls) = k
           /\ \A j \in 1..k :
                 /\ bulk_calls[j].stored
                 /\ bulk_calls[j].actions /= <<>>
                 /\ Len(bulk_calls[j].actions) =
                       IF j < k THEN batch_size ELSE n - batch_size * (k - 1)
           /\ StoredSources = yielded
           /\ \A j \in 1..k : \A a \in Range(bulk_calls[j].actions) :
                 a.id = get(a.source.f, "id", PyNull)

C2_Witness ==
    /\ pc = "done"
    /\ batch_size = 2
    /\ Len(yielded) = 3
    /\ Len(bulk_calls) = 2

\* C3: a run with a batch size of 0 or less is rejected before processing
\* starts: it reads no input line and issues no bulk write.
C3_NonPositiveBatchSizeRejected ==
    batch_size <= 0 => (i = 0 /\ bulk_calls = <<>>)

\* C4: for every input and every start offset k <= n the reader emits exactly
\* one record for each valid line with index >= k, in line order, and nothing
\* else (stated of load_jsonl_lines, once it has stopped reading, in a run
\* with a positive batch size).
C4_ReaderEmitsValidLinesFromOffset ==
    (pc \in {"done", "error_line"} /\ start_line <= Len(input)
        /\ batch_size >= 1) =>
        [j \in 1..Len(yielded) |-> WithoutTimestamp(yielded[j])]
            = ExpectedLoad(input, start_line, Len(input))

\* C5: in the cleaning stage a line that is not valid JSON writes nothing and
\* leaves the counter unchanged, the later valid lines are still processed, and
\* at every point of the run the counter is the number of records written.
C5_CounterIsRecordsWritten ==
    pc \in {"loop", "done"} =>
        /\ total_processed = Len(fout)
        /\ fout = ExpectedClean(input, start_line, i)
        /\ pc = "done" => i = Len(input)

C5_Witness ==
    /\ pc = "done"
    /\ \E j \in 1..Len(input) - 1 :
          /\ j - 1 >= start_line
          /\ ~input[j].parses
          /\ ValidForClean(input[j + 1])
    /\ total_processed >= 1
    /\ LogEntry("invalid json", start_line, PyNull) \in Range(log)

\* C6: clean_record never raises on a raw record whose fields are absent,
\* null or present, and returns exactly the ten keys, an absent source field
\* taking its default.
C6_CleanRecordTotal ==
    (pc = "returned" /\ TypedRawRecord(raw)) =>
        /\ ~Raised(cleaned)
        /\ DOMAIN cleaned.f = CleanedKeys
        /\ \A key \in CleanedKeys :
              SourceKey(key) \notin DOMAIN raw.f => cleaned.f[key] = DefaultOf(key)

\* C7: normalize_dates changes nothing but the 'created' of the version
\* entries whose 'created' parses: an absent, non-string or unparseable
\* 'created' keeps its value, the failure is logged and not raised, the other
\* entries are still normalized, every other field is unchanged, and the
\* record is yielded and placed in a batch.
C7_NormalizeDatesFrame ==
    /\ pc = "error_line" => ~WellFormed(input[i + 1])
    /\ LET idxs == ParsingIdx(input, start_line, i) IN
         /\ Len(yielded) = Len(idxs)
         /\ \A j \in 1..Len(idxs) :
               RecordFrame(input[idxs[j] + 1].val, yielded[j], idxs[j])
    /\ pc /= "done" => StoredSources \o batch = yielded

C7_Witness ==
    /\ pc = "done"
    /\ \E r \in Range(StoredSources) :
          /\ "versions" \in DOMAIN r.f
          /\ Len(r.f["versions"].xs) = 4
          /\ r.f["versions"].xs[1].f["created"] = PyStr(NotADate)
          /\ "created" \notin DOMAIN r.f["versions"].xs[2].f
          /\ r.f["versions"].xs[3].f["created"] = PyInt(5)
          /\ r.f["versions"].xs[4].f["created"] = PyStr(IsoDate2)
    /\ \E e \in Range(log) : e.event = "bad created date"

\* C8: a failed bulk write ends the run in an error state: it is the last
\* bulk call of the run, which never reaches the success state and neither
\* reads on nor writes a later batch.
C8_FailedBatchEndsRun ==
    \A j \in 1..Len(bulk_calls) :
        ~bulk_calls[j].stored =>
            /\ j = Len(bulk_calls)
            /\ pc = "error_bulk"
            /\ batch /= <<>>
            /\ Sources(bulk_calls[j].actions) = batch

C8_Witness ==
    /\ pc = "error_bulk"
    /\ i < Len(input)
    /\ Len(bulk_calls) = 2
    /\ bulk_calls[1].stored
    /\ ~bulk_calls[2].stored

\* C9: a second run of the cleaning stage with the same input, output path
\* and start_line leaves the output file as the first run left it.
C9_RerunLeavesOutputIdentical ==
    (run = 2 /\ pc = "done") => fout = first_out

C9_Witness ==
    /\ run = 2
    /\ pc = "done"
    /\ Len(fout) >= 2
    /\ fout = first_out

\* C10: nothing is read or written before the index is ensured, a failure
\* there ends the run with no record processed, and the run is done only when
\* the whole input is read and every yielded record went into a bulk write.
C10_RunOrder ==
    /\ pc \in {"start", "error_ensure"} =>
          i = 0 /\ yielded = <<>> /\ batch = <<>> /\ bulk_calls = <<>>
    /\ pc \notin {"start", "error_ensure"} => index_exists
    /\ pc = "done" => i = Len(input) /\ StoredSources = yielded

C10_Witness ==
    /\ pc = "done"
    /\ index_exists
    /\ i = Len(input)
    /\ Len(input) = 3
    /\ Len(yielded) = 1
    /\ Len(bulk_calls) = 1
    /\ batch /= <<>>

====
